---- MODULE Spec2Model ----
(***************************************************************************)
(* RehashingHashMap (src/src/lib.rs): a map kept in two std HashMaps,      *)
(* hashmap1 and hashmap2.  shrink_to_fit swaps which one is "main" and     *)
(* every mutating call then moves one entry of the secondary table into    *)
(* main (rehash) until the secondary is empty and is dropped.              *)
(***************************************************************************)
EXTENDS Integers, FiniteSets, Sequences, TLC

\* ------------------------------------------------------------------ bounds
MaxKey == 2          \* keys are 1..MaxKey
MaxVal == 2          \* values are 1..MaxVal
MaxAdditional == 1   \* largest argument of reserve / with_capacity
Slack == 1           \* how far a growing HashMap may over-allocate

Keys == 1..MaxKey
Vals == 1..MaxVal

\* Option<V>
None == <<>>
Some(v) == <<v>>

VARIABLES
    hashmap1,    \* HashMap<K, V>: [map: partial function Keys -> Vals, cap: Nat]
    hashmap2,    \* HashMap<K, V>
    is1main,     \* bool
    rehashing,   \* bool
    panic,       \* "none", or the place of the assertion/unwrap that failed
    control,     \* a plain map fed the same inserts/removes (the tests' control)
    run          \* shrink_to_fit followed by rehash calls only: [n, steps, snap]

vars == <<hashmap1, hashmap2, is1main, rehashing, panic, control, run>>

\* ------------------------------------------------- std::collections::HashMap
EmptyMap == [x \in {} |-> 0]

HashMap_new == [map |-> EmptyMap, cap |-> 0]

\* the capacities a table of capacity cap may have once it must hold need entries
Grow(cap, need) == IF cap >= need THEN {cap} ELSE need..(need + Slack)

HashMap_with_capacity(n) == {[map |-> EmptyMap, cap |-> c] : c \in Grow(0, n)}

hm_len(t) == Cardinality(DOMAIN t.map)

hm_get(t, k) == IF k \in DOMAIN t.map THEN Some(t.map[k]) ELSE None

hm_contains_key(t, k) == k \in DOMAIN t.map

\* remove keeps the allocation
hm_remove(t, k) ==
    [t   |-> [map |-> [x \in DOMAIN t.map \ {k} |-> t.map[x]], cap |-> t.cap],
     ret |-> hm_get(t, k)]

\* insert grows the table when the new entry does not fit
hm_insert(t, k, v) ==
    LET dom == DOMAIN t.map \cup {k}
        m   == [x \in dom |-> IF x = k THEN v ELSE t.map[x]]
    IN  {[t |-> [map |-> m, cap |-> c], ret |-> hm_get(t, k)] :
            c \in Grow(t.cap, Cardinality(dom))}

hm_reserve(t, additional) ==
    {[map |-> t.map, cap |-> c] : c \in Grow(t.cap, hm_len(t) + additional)}

\* clear keeps the allocation
hm_clear(t) == [map |-> EmptyMap, cap |-> t.cap]

\* writing through a &mut V of an entry that is present
hm_write(t, k, v) == [t EXCEPT !.map[k] = v]

\* ------------------------------------------------------ RehashingHashMap
Self ==
    [hashmap1 |-> hashmap1, hashmap2 |-> hashmap2, is1main |-> is1main,
     rehashing |-> rehashing, panic |-> panic]

new ==
    [hashmap1 |-> HashMap_new, hashmap2 |-> HashMap_new, is1main |-> TRUE,
     rehashing |-> FALSE, panic |-> "none"]

with_capacity(capacity) ==
    {[hashmap1 |-> h, hashmap2 |-> HashMap_new, is1main |-> TRUE,
      rehashing |-> FALSE, panic |-> "none"] : h \in HashMap_with_capacity(capacity)}

get_main(s) == IF s.is1main THEN s.hashmap1 ELSE s.hashmap2

get_secondary(s) == IF s.is1main THEN s.hashmap2 ELSE s.hashmap1

\* assignment through get_mut_main()
set_main(s, t) ==
    IF s.is1main THEN [s EXCEPT !.hashmap1 = t] ELSE [s EXCEPT !.hashmap2 = t]

\* assignment through get_mut_secondary()
set_secondary(s, t) ==
    IF s.is1main THEN [s EXCEPT !.hashmap2 = t] ELSE [s EXCEPT !.hashmap1 = t]

\* mutant: the entries still in the secondary are not counted
len_main_only(s) == hm_len(get_main(s))

len(s) == hm_len(get_main(s)) + hm_len(get_secondary(s))

is_empty(s) == hm_len(get_main(s)) = 0 /\ hm_len(get_secondary(s)) = 0

\* mutant: the entries still in the secondary are left out of the capacity
capacity_main_only(s) == get_main(s).cap

capacity(s) == get_main(s).cap + hm_len(get_secondary(s))

contains_key(s, k) ==
    hm_contains_key(get_main(s), k) \/ hm_contains_key(get_secondary(s), k)

\* mutant: the lookup forgets the secondary table
get_main_only(s, k) == hm_get(get_main(s), k)

get(s, k) ==
    IF s.rehashing
    THEN IF hm_get(get_main(s), k) # None
         THEN hm_get(get_main(s), k)
         ELSE hm_get(get_secondary(s), k)
    ELSE hm_get(get_main(s), k)

\* mutant: the retired table is cleared in place, keeping its allocation
drop_secondary_clear(s) ==
    LET s1 == [s EXCEPT !.rehashing = FALSE]
    IN  IF hm_len(get_secondary(s1)) # 0
        THEN [s1 EXCEPT !.panic = "drop_secondary"]
        ELSE set_secondary(s1, hm_clear(get_secondary(s1)))

\* rehashing is reset first, then the assertion runs, then the table is replaced
drop_secondary(s) ==
    LET s1 == [s EXCEPT !.rehashing = FALSE]
    IN  IF hm_len(get_secondary(s1)) # 0
        THEN [s1 EXCEPT !.panic = "drop_secondary"]
        ELSE set_secondary(s1, HashMap_new)

\* mutant: the drained secondary is never retired
rehash_never_retires(s) ==
    IF ~s.rehashing \/ hm_len(get_secondary(s)) = 0 THEN {s}
    ELSE LET sec == get_secondary(s)
         IN  UNION { {set_main(set_secondary(s, hm_remove(sec, k).t), i.t) :
                        i \in hm_insert(get_main(s), k, sec.map[k])}
                   : k \in DOMAIN sec.map }

\* mutant: one call moves every entry of the secondary
rehash_moves_all(s) ==
    IF ~s.rehashing THEN {s}
    ELSE IF hm_len(get_secondary(s)) = 0 THEN {drop_secondary(s)}
    ELSE LET sec == get_secondary(s)
             main == get_main(s)
             all == [k \in DOMAIN main.map \cup DOMAIN sec.map |->
                        IF k \in DOMAIN sec.map THEN sec.map[k] ELSE main.map[k]]
         IN  {set_main(set_secondary(s, hm_clear(sec)), [map |-> all, cap |-> c]) :
                c \in Grow(main.cap, Cardinality(DOMAIN all))}

\* one step of the migration; the key moved is the first of the secondary's
\* iteration order, which is unspecified
rehash(s) ==
    IF ~s.rehashing THEN {s}
    ELSE IF hm_len(get_secondary(s)) = 0 THEN {drop_secondary(s)}
    ELSE LET sec == get_secondary(s)
         IN  IF DOMAIN sec.map = {}
             THEN {[s EXCEPT !.panic = "rehash_keys_unwrap"]}
             ELSE UNION {
                    LET r == hm_remove(sec, k)
                    IN  IF r.ret = None
                        THEN {[s EXCEPT !.panic = "rehash_remove_unwrap"]}
                        ELSE {set_main(set_secondary(s, r.t), i.t) :
                                i \in hm_insert(get_main(s), k, r.ret[1])}
                    : k \in DOMAIN sec.map }


\* mutant: reserve leaves the migration where it is
reserve_no_rehash(s, additional) ==
    {set_main(s, t) : t \in hm_reserve(get_main(s), additional)}

reserve(s, additional) ==
    UNION { IF s1.panic # "none" THEN {s1}
            ELSE {set_main(s1, t) : t \in hm_reserve(get_main(s1), additional)}
          : s1 \in rehash(s) }

\* the assertion of is_rehashing, then the flag
is_rehashing(s) ==
    IF ~s.rehashing /\ hm_len(get_secondary(s)) # 0
    THEN [s |-> [s EXCEPT !.panic = "is_rehashing"], ret |-> s.rehashing]
    ELSE [s |-> s, ret |-> s.rehashing]

\* mutant: the roles are not swapped
shrink_to_fit_no_flip(s) ==
    IF ~s.rehashing
    THEN LET s1 == [s EXCEPT !.rehashing = TRUE]
         IN  {set_main(s1, t) : t \in hm_reserve(get_main(s1), len(s1))}
    ELSE {s}

\* mutant: a migration under way does not stop a new one from starting
shrink_to_fit_unguarded(s) ==
    LET s1 == [s EXCEPT !.rehashing = TRUE, !.is1main = ~s.is1main]
    IN  {set_main(s1, t) : t \in hm_reserve(get_main(s1), len(s1))}

\* mutant: the new main table is not reserved
shrink_to_fit_no_reserve(s) ==
    IF ~s.rehashing
    THEN {[s EXCEPT !.rehashing = TRUE, !.is1main = ~s.is1main]}
    ELSE {s}

\* len() is read after the flag and the roles have changed
shrink_to_fit(s) ==
    IF ~s.rehashing
    THEN LET s1 == [s EXCEPT !.rehashing = TRUE, !.is1main = ~s.is1main]
         IN  {set_main(s1, t) : t \in hm_reserve(get_main(s1), len(s1))}
    ELSE {s}

clear(s) == drop_secondary(set_main(s, hm_clear(get_main(s))))

\* mutant: the old binding is looked for in main alone
insert_main_only(s, k, v) ==
    LET r == hm_remove(get_main(s), k)
    IN  UNION { {[s |-> s3, ret |-> r.ret] : s3 \in rehash(set_main(s, i.t))}
              : i \in hm_insert(r.t, k, v) }

\* mutant: the second removal overwrites what the first one found
insert_ret_overwritten(s, k, v) ==
    LET r1  == IF s.rehashing \/ s.is1main
               THEN hm_remove(s.hashmap1, k)
               ELSE [t |-> s.hashmap1, ret |-> None]
        r2  == IF s.rehashing \/ ~s.is1main
               THEN hm_remove(s.hashmap2, k)
               ELSE [t |-> s.hashmap2, ret |-> r1.ret]
        s1  == [s EXCEPT !.hashmap1 = r1.t, !.hashmap2 = r2.t]
    IN  UNION { {[s |-> s3, ret |-> r2.ret] : s3 \in rehash(set_main(s1, i.t))}
              : i \in hm_insert(get_main(s1), k, v) }

\* mutant: insert does not advance the migration
insert_no_rehash(s, k, v) ==
    LET r1  == IF s.rehashing \/ s.is1main
               THEN hm_remove(s.hashmap1, k)
               ELSE [t |-> s.hashmap1, ret |-> None]
        r2  == IF r1.ret = None /\ (s.rehashing \/ ~s.is1main)
               THEN hm_remove(s.hashmap2, k)
               ELSE [t |-> s.hashmap2, ret |-> r1.ret]
        s1  == [s EXCEPT !.hashmap1 = r1.t, !.hashmap2 = r2.t]
    IN  {[s |-> set_main(s1, i.t), ret |-> r2.ret] : i \in hm_insert(get_main(s1), k, v)}

insert(s, k, v) ==
    LET r1  == IF s.rehashing \/ s.is1main
               THEN hm_remove(s.hashmap1, k)
               ELSE [t |-> s.hashmap1, ret |-> None]
        r2  == IF r1.ret = None /\ (s.rehashing \/ ~s.is1main)
               THEN hm_remove(s.hashmap2, k)
               ELSE [t |-> s.hashmap2, ret |-> r1.ret]
        s1  == [s EXCEPT !.hashmap1 = r1.t, !.hashmap2 = r2.t]
    IN  UNION { {[s |-> s3, ret |-> r2.ret] : s3 \in rehash(set_main(s1, i.t))}
              : i \in hm_insert(get_main(s1), k, v) }

\* mutant: while migrating, the reference is looked for in the main table alone
get_mut_main_only(s, k, w) ==
    IF s.rehashing
    THEN { IF s1.panic # "none" THEN [s |-> s1, ret |-> None]
           ELSE IF hm_contains_key(get_main(s1), k)
           THEN [s |-> set_main(s1, hm_write(get_main(s1), k, w)),
                 ret |-> hm_get(get_main(s1), k)]
           ELSE [s |-> s1, ret |-> None]
         : s1 \in rehash(s) }
    ELSE IF hm_contains_key(get_main(s), k)
         THEN {[s |-> set_main(s, hm_write(get_main(s), k, w)),
                ret |-> hm_get(get_main(s), k)]}
         ELSE {[s |-> s, ret |-> None]}

\* get_mut(k) followed by a write of w through the reference it returns
get_mut(s, k, w) ==
    IF s.rehashing
    THEN { IF s1.panic # "none" THEN [s |-> s1, ret |-> None]
           ELSE IF hm_contains_key(get_main(s1), k)
           THEN [s |-> set_main(s1, hm_write(get_main(s1), k, w)),
                 ret |-> hm_get(get_main(s1), k)]
           ELSE IF hm_contains_key(get_secondary(s1), k)
           THEN [s |-> set_secondary(s1, hm_write(get_secondary(s1), k, w)),
                 ret |-> hm_get(get_secondary(s1), k)]
           ELSE [s |-> s1, ret |-> None]
         : s1 \in rehash(s) }
    ELSE IF hm_contains_key(get_main(s), k)
         THEN {[s |-> set_main(s, hm_write(get_main(s), k, w)),
                ret |-> hm_get(get_main(s), k)]}
         ELSE {[s |-> s, ret |-> None]}

\* mutant: the secondary is not searched
remove_main_only(s, k) ==
    IF s.rehashing
    THEN { IF s1.panic # "none" THEN [s |-> s1, ret |-> None]
           ELSE [s |-> set_main(s1, hm_remove(get_main(s1), k).t),
                 ret |-> hm_remove(get_main(s1), k).ret]
         : s1 \in rehash(s) }
    ELSE {[s |-> set_main(s, hm_remove(get_main(s), k).t),
           ret |-> hm_remove(get_main(s), k).ret]}

remove(s, k) ==
    IF s.rehashing
    THEN { IF s1.panic # "none" THEN [s |-> s1, ret |-> None]
           ELSE LET rm == hm_remove(get_main(s1), k)
                    rs == hm_remove(get_secondary(s1), k)
                IN  IF rm.ret # None
                    THEN [s |-> set_main(s1, rm.t), ret |-> rm.ret]
                    ELSE [s |-> set_secondary(set_main(s1, rm.t), rs.t), ret |-> rs.ret]
         : s1 \in rehash(s) }
    ELSE LET rm == hm_remove(get_main(s), k)
         IN  {[s |-> set_main(s, rm.t), ret |-> rm.ret]}

\* mutant: while migrating, the entry is always taken in the secondary table
entry_in_secondary(s, key, d, w) ==
    UNION { IF s1.panic # "none" THEN {[s |-> s1, ret |-> None]}
            ELSE IF s1.rehashing /\ hm_contains_key(get_secondary(s1), key)
            THEN {[s |-> set_secondary(s1, hm_write(get_secondary(s1), key, w)),
                   ret |-> hm_get(get_secondary(s1), key)]}
            ELSE IF s1.rehashing
            THEN {[s |-> set_secondary(s1, hm_write(i.t, key, w)), ret |-> Some(d)]
                    : i \in hm_insert(get_secondary(s1), key, d)}
            ELSE IF hm_contains_key(get_main(s1), key)
            THEN {[s |-> set_main(s1, hm_write(get_main(s1), key, w)),
                   ret |-> hm_get(get_main(s1), key)]}
            ELSE {[s |-> set_main(s1, hm_write(i.t, key, w)), ret |-> Some(d)]
                    : i \in hm_insert(get_main(s1), key, d)}
          : s1 \in rehash(s) }

\* entry(key).or_insert(d) followed by a write of w through the reference;
\* ret is the value or_insert found or put there
entry(s, key, d, w) ==
    UNION { IF s1.panic # "none" THEN {[s |-> s1, ret |-> None]}
            ELSE IF s1.rehashing /\ hm_contains_key(get_secondary(s1), key)
            THEN {[s |-> set_secondary(s1, hm_write(get_secondary(s1), key, w)),
                   ret |-> hm_get(get_secondary(s1), key)]}
            ELSE IF hm_contains_key(get_main(s1), key)
            THEN {[s |-> set_main(s1, hm_write(get_main(s1), key, w)),
                   ret |-> hm_get(get_main(s1), key)]}
            ELSE {[s |-> set_main(s1, hm_write(i.t, key, w)), ret |-> Some(d)]
                    : i \in hm_insert(get_main(s1), key, d)}
          : s1 \in rehash(s) }

\* iter_mut() followed by a write of w through the reference it yields for
\* key j, if it yields one; ret is the length the iterator reports
iter_mut(s, j, w) ==
    { IF s1.panic # "none" THEN [s |-> s1, ret |-> 0]
      ELSE [s |-> [s1 EXCEPT
                     !.hashmap1 = IF hm_contains_key(s1.hashmap1, j)
                                  THEN hm_write(s1.hashmap1, j, w) ELSE s1.hashmap1,
                     !.hashmap2 = IF hm_contains_key(s1.hashmap2, j)
                                  THEN hm_write(s1.hashmap2, j, w) ELSE s1.hashmap2],
            ret |-> hm_len(s1.hashmap1) + hm_len(s1.hashmap2)]
    : s1 \in rehash(s) }

\* the orders in which a HashMap's own iterator may yield its entries, as
\* sequences of <<key, value>>: every entry once, in an unspecified order
hm_iter(t) ==
    LET D == DOMAIN t.map
        n == Cardinality(D)
    IN  {[i \in 1..n |-> <<f[i], t.map[f[i]]>>] :
            f \in {g \in [1..n -> D] : \A i, j \in 1..n : g[i] = g[j] => i = j}}

\* mutant: the iterator walks hashmap1 alone
iter_hashmap1_only(s) ==
    {[items |-> a, len |-> hm_len(s.hashmap1) + hm_len(s.hashmap2)] :
        a \in hm_iter(s.hashmap1)}

\* iter(): what the iterator yields until exhausted, and the len it reports
iter(s) ==
    {[items |-> a \o b, len |-> hm_len(s.hashmap1) + hm_len(s.hashmap2)] :
        a \in hm_iter(s.hashmap1), b \in hm_iter(s.hashmap2)}

keys(s) ==
    {[items |-> [i \in DOMAIN (a \o b) |-> (a \o b)[i][1]],
      len |-> hm_len(s.hashmap1) + hm_len(s.hashmap2)] :
        a \in hm_iter(s.hashmap1), b \in hm_iter(s.hashmap2)}

values(s) ==
    {[items |-> [i \in DOMAIN (a \o b) |-> (a \o b)[i][2]],
      len |-> hm_len(s.hashmap1) + hm_len(s.hashmap2)] :
        a \in hm_iter(s.hashmap1), b \in hm_iter(s.hashmap2)}

\* iter_mut(): the container after the rehash step, what the iterator yields
\* and the len it reports
iter_mut_yield(s) ==
    UNION { IF s1.panic # "none" THEN {[s |-> s1, items |-> <<>>, len |-> 0]}
            ELSE {[s |-> s1, items |-> a \o b,
                   len |-> hm_len(s1.hashmap1) + hm_len(s1.hashmap2)] :
                     a \in hm_iter(s1.hashmap1), b \in hm_iter(s1.hashmap2)}
          : s1 \in rehash(s) }

\* mutant: the main tables are compared whatever the state of the migrations
eq_main_tables(a, b) ==
    [ret |-> get_main(a).map = get_main(b).map, panic |-> "none"]

\* PartialEq::eq(a, b): the result, and the assertion of is_rehashing that
\* failed on the way, if one did
eq(a, b) ==
    LET ra == is_rehashing(a)
        rb == is_rehashing(b)
        slow == [ret |-> /\ len(a) = len(b)
                         /\ \A t \in {a.hashmap1, a.hashmap2} :
                               \A k \in DOMAIN t.map : get(b, k) = Some(t.map[k]),
                 panic |-> "none"]
    IN  IF ra.s.panic # "none" THEN [ret |-> FALSE, panic |-> ra.s.panic]
        ELSE IF ra.ret THEN slow
        ELSE IF rb.s.panic # "none" THEN [ret |-> FALSE, panic |-> rb.s.panic]
        ELSE IF rb.ret THEN slow
        ELSE [ret |-> get_main(a).map = get_main(b).map, panic |-> "none"]

\* Iter::next on an iterator it, a record with the items the inner chain has
\* still to yield and the len field: the inner chain yields its next item, the
\* len field is left as it is (the same code for IterMut, Keys and Values)
Iter_next(it) ==
    IF it.items = <<>>
    THEN [it |-> it, ret |-> None]
    ELSE [it |-> [it EXCEPT !.items = Tail(it.items)], ret |-> Some(Head(it.items))]

\* ExactSizeIterator::len: the len field
Iter_len(it) == it.len

\* Iterator::size_hint: that of the inner chain, which is exact
Iter_size_hint(it) == Len(it.items)

\* the iterator it after j calls of next
RECURSIVE Iter_nth(_, _)
Iter_nth(it, j) == IF j = 0 THEN it ELSE Iter_nth(Iter_next(it).it, j - 1)

\* --------------------------------------------------------- bookkeeping
NoRun == [n |-> -1, steps |-> 0, snap |-> EmptyMap]

\* the bindings get() reports
Contents(s) == [k \in {x \in Keys : get(s, x) # None} |-> get(s, k)[1]]

Become(s) ==
    /\ hashmap1' = s.hashmap1
    /\ hashmap2' = s.hashmap2
    /\ is1main' = s.is1main
    /\ rehashing' = s.rehashing
    /\ panic' = s.panic

\* no assertion has failed: the program is still running
Running == panic = "none"

\* ------------------------------------------------------------- actions
Init ==
    /\ \E n \in 0..MaxAdditional : \E s \in {new} \cup with_capacity(n) :
          /\ hashmap1 = s.hashmap1
          /\ hashmap2 = s.hashmap2
          /\ is1main = s.is1main
          /\ rehashing = s.rehashing
          /\ panic = s.panic
    /\ control = EmptyMap
    /\ run = NoRun

Rehash ==
    /\ Running
    /\ \E s \in rehash(Self) : Become(s)
    /\ run' = IF run.n >= 0 /\ run.steps <= run.n
              THEN [run EXCEPT !.steps = run.steps + 1] ELSE run
    /\ UNCHANGED control

Reserve ==
    /\ Running
    /\ \E additional \in 0..MaxAdditional :
          \E s \in reserve(Self, additional) : Become(s)
    /\ run' = NoRun
    /\ UNCHANGED control

IsRehashing ==
    /\ Running
    /\ Become(is_rehashing(Self).s)
    /\ UNCHANGED <<control, run>>

ShrinkToFit ==
    /\ Running
    /\ \E s \in shrink_to_fit(Self) : Become(s)
    /\ run' = IF ~rehashing
              THEN [n |-> len(Self), steps |-> 0, snap |-> Contents(Self)]
              ELSE NoRun
    /\ UNCHANGED control

Clear ==
    /\ Running
    /\ Become(clear(Self))
    /\ control' = EmptyMap
    /\ run' = NoRun

Insert ==
    /\ Running
    /\ \E k \in Keys, v \in Vals :
          /\ \E r \in insert(Self, k, v) : Become(r.s)
          /\ control' = [x \in DOMAIN control \cup {k} |-> IF x = k THEN v ELSE control[x]]
    /\ run' = NoRun

GetMut ==
    /\ Running
    /\ \E k \in Keys, w \in Vals :
          /\ \E r \in get_mut(Self, k, w) : Become(r.s)
          /\ control' = [x \in DOMAIN control |-> IF x = k THEN w ELSE control[x]]
    /\ run' = NoRun

Remove ==
    /\ Running
    /\ \E k \in Keys :
          /\ \E r \in remove(Self, k) : Become(r.s)
          /\ control' = [x \in DOMAIN control \ {k} |-> control[x]]
    /\ run' = NoRun

Entry ==
    /\ Running
    /\ \E k \in Keys, w \in Vals :
          /\ \E r \in entry(Self, k, w, w) : Become(r.s)
          /\ control' = [x \in DOMAIN control \cup {k} |-> IF x = k THEN w ELSE control[x]]
    /\ run' = NoRun

IterMut ==
    /\ Running
    /\ \E j \in Keys, w \in Vals :
          /\ \E r \in iter_mut(Self, j, w) : Become(r.s)
          /\ control' = [x \in DOMAIN control |-> IF x = j THEN w ELSE control[x]]
    /\ run' = NoRun

Next ==
    \/ Rehash
    \/ Reserve
    \/ IsRehashing
    \/ ShrinkToFit
    \/ Clear
    \/ Insert
    \/ GetMut
    \/ Remove
    \/ Entry
    \/ IterMut

Spec == Init /\ [][Next]_vars


\* ------------------------------------------------------------------ claims
\* the bindings of the control map, as get() would report them
control_get(k) == IF k \in DOMAIN control THEN Some(control[k]) ELSE None

\* C1: in every state reachable by any sequence of insert, remove, get_mut,
\* entry, iter_mut, reserve, shrink_to_fit, rehash and clear calls, no key is
\* in hashmap1 and in hashmap2 at once.
Exclusivity == DOMAIN hashmap1.map \cap DOMAIN hashmap2.map = {}

\* a migration is under way with entries on both sides
ExclusivityWitness ==
    /\ Running /\ rehashing
    /\ hm_len(hashmap1) >= 1
    /\ hm_len(hashmap2) >= 1

\* C2: get(k) returns for every key what a single-table map fed the same
\* calls returns: shrink_to_fit and rehash never change a key's value or
\* presence, and a key that was never inserted is not found.
ContentsAreThoseOfAPlainMap == \A k \in Keys : get(Self, k) = control_get(k)

\* mid-migration: one key already in main, one still in secondary, and a
\* rehash-only run since shrink_to_fit (the keys were inserted before it)
ContentsWitness ==
    /\ Running /\ rehashing
    /\ run.n = 2 /\ run.steps = 1
    /\ \E k \in Keys : hm_contains_key(get_secondary(Self), k) /\ get(Self, k) # None
    /\ \E k \in Keys : hm_contains_key(get_main(Self), k) /\ get(Self, k) # None

\* C3: after every call that returned, if rehashing is false then the
\* secondary table holds no entries and has capacity 0.
Quiescence ==
    (Running /\ ~rehashing) =>
        /\ hm_len(get_secondary(Self)) = 0
        /\ get_secondary(Self).cap = 0

\* a migration has been finalized: the roles are swapped, main holds the
\* entries and has an allocation
QuiescenceWitness ==
    /\ Running /\ ~rehashing /\ ~is1main
    /\ hm_len(get_main(Self)) >= 1
    /\ get_main(Self).cap >= 1
    /\ get_secondary(Self).cap = 0

\* C4: clear() called in any reachable state completes without a failed
\* assertion and leaves both tables empty, rehashing false and the secondary
\* released.
ClearSucceedsInEveryState ==
    Running =>
        LET s == clear(Self)
        IN  /\ s.panic = "none"
            /\ len(s) = 0
            /\ hm_len(s.hashmap1) = 0 /\ hm_len(s.hashmap2) = 0
            /\ ~s.rehashing
            /\ get_secondary(s).cap = 0


\* C5, as the specification states it: starting from N >= 1 entries, after
\* shrink_to_fit and N calls of rehash with no other call in between the
\* container is no longer rehashing.
ConvergesWithinNSteps ==
    (Running /\ run.n >= 1 /\ run.steps >= run.n) => ~rehashing

\* C5, amended: starting from N entries, shrink_to_fit followed by rehash calls
\* only leaves the container rehashing after each of the first N calls and not
\* rehashing from the (N+1)-th call on (run.steps stops counting at N+1).
ConvergesAtStepNPlus1 ==
    (Running /\ run.n >= 0) => (rehashing <=> run.steps <= run.n)

\* N entries were there, N+1 rehash calls were made, the migration is over
ConvergenceWitness ==
    /\ Running /\ ~rehashing
    /\ run.n >= 1 /\ run.steps = run.n + 1
    /\ hm_len(get_main(Self)) = run.n

\* C6: starting from N >= 1 entries, after shrink_to_fit the container is
\* rehashing after each of the first N/2 consecutive rehash calls and is not
\* rehashing after N+1 of them; len() and every get(k) are what they were
\* before shrink_to_fit at every point of that run.
ConvergenceAsTested ==
    (Running /\ run.n >= 1) =>
        /\ (run.steps <= run.n \div 2) => rehashing
        /\ (run.steps = run.n + 1) => ~rehashing
        /\ len(Self) = run.n
        /\ Contents(Self) = run.snap

\* half way: N/2 >= 1 calls made, entries on both sides, still rehashing
ConvergenceAsTestedWitness ==
    /\ Running /\ rehashing
    /\ run.n >= 2 /\ run.steps = run.n \div 2
    /\ hm_len(get_main(Self)) = run.steps
    /\ hm_len(get_secondary(Self)) = run.n - run.steps

\* C7: no assertion (is_rehashing, drop_secondary) and no unwrap (rehash)
\* fails, whatever the sequence of public calls.
NoAssertionFails == panic = "none"

\* the number of keys get() finds
found(s) == Cardinality({k \in Keys : get(s, k) # None})

\* C8: after every call that returned, len() is the number of distinct keys
\* get() finds, is_empty() holds exactly when that number is 0, and neither
\* shrink_to_fit nor rehash changes len().
SizeAdditivity ==
    Running =>
        /\ len(Self) = found(Self)
        /\ is_empty(Self) <=> (found(Self) = 0)
        /\ \A s \in shrink_to_fit(Self) \cup rehash(Self) : len(s) = len(Self)

\* entries on both sides, and a rehash step that moves one of them
SizeWitness ==
    /\ Running /\ rehashing
    /\ hm_len(get_main(Self)) >= 1
    /\ hm_len(get_secondary(Self)) >= 1
    /\ \E s \in rehash(Self) : hm_len(get_main(s)) = hm_len(get_main(Self)) + 1

\* C9: insert(k, v) in any reachable state returns the value k was bound to,
\* or None; afterwards k is bound to v in the main table only and every other
\* key's binding is unchanged.
InsertContract ==
    Running =>
        \A k \in Keys, v \in Vals : \A r \in insert(Self, k, v) :
            /\ r.s.panic = "none"
            /\ r.ret = get(Self, k)
            /\ hm_get(get_main(r.s), k) = Some(v)
            /\ ~hm_contains_key(get_secondary(r.s), k)
            /\ \A j \in Keys \ {k} : get(r.s, j) = get(Self, j)

\* insert of a key still parked in the secondary: it goes to main, insert's
\* own rehash step moves another key, and the migration is still going on
InsertWitness ==
    /\ Running /\ rehashing
    /\ \E k \in Keys, v \in Vals : \E r \in insert(Self, k, v) :
          /\ hm_contains_key(get_secondary(Self), k)
          /\ r.ret # None /\ r.ret # Some(v)
          /\ r.s.rehashing
          /\ hm_len(get_main(r.s)) = hm_len(get_main(Self)) + 2

\* C10: remove(k) in any reachable state returns the value k is bound to, or
\* None; afterwards k is in neither table, len() has dropped by one exactly
\* when k was present, and every other key's binding is unchanged.
RemoveContract ==
    Running =>
        \A k \in Keys : \A r \in remove(Self, k) :
            /\ r.s.panic = "none"
            /\ r.ret = get(Self, k)
            /\ ~hm_contains_key(r.s.hashmap1, k)
            /\ ~hm_contains_key(r.s.hashmap2, k)
            /\ len(r.s) = len(Self) - (IF get(Self, k) # None THEN 1 ELSE 0)
            /\ \A j \in Keys \ {k} : get(r.s, j) = get(Self, j)

\* remove of a key that is in the secondary when remove is entered and still
\* there after remove's own rehash step moved another key
RemoveWitness ==
    /\ Running /\ rehashing
    /\ \E k \in Keys : \E r \in remove(Self, k) :
          /\ hm_contains_key(get_secondary(Self), k)
          /\ r.ret # None
          /\ r.s.rehashing
          /\ hm_len(get_main(r.s)) = hm_len(get_main(Self)) + 1
          /\ hm_len(get_secondary(r.s)) = hm_len(get_secondary(Self)) - 2

\* C11: shrink_to_fit called while a migration is under way changes nothing:
\* is1main, rehashing, and the entries and capacity of both tables stay.
ShrinkToFitWhileRehashingIsNoOp ==
    (Running /\ rehashing) => shrink_to_fit(Self) = {Self}

\* shrink_to_fit applied mid-migration, entries on both sides
ShrinkToFitNoOpWitness ==
    /\ Running /\ rehashing
    /\ hm_len(get_main(Self)) >= 1
    /\ hm_len(get_secondary(Self)) >= 1
    /\ \E s \in shrink_to_fit(Self) : s.is1main = is1main /\ s.rehashing

\* C12: shrink_to_fit called while no migration is under way flips is1main and
\* sets rehashing; the new secondary holds exactly the entries the container
\* held, the new main is empty with capacity at least len(), and len() and
\* every get(k) are unchanged.
ShrinkToFitStartsMigration ==
    (Running /\ ~rehashing) =>
        \A s \in shrink_to_fit(Self) :
            /\ s.is1main = ~is1main
            /\ s.rehashing
            /\ s.panic = "none"
            /\ get_secondary(s).map = get_main(Self).map
            /\ hm_len(get_main(s)) = 0
            /\ get_main(s).cap >= len(s)
            /\ len(s) = len(Self)
            /\ \A k \in Keys : get(s, k) = get(Self, k)

\* shrink_to_fit applied to a quiescent container that holds every key, after
\* an earlier migration has been finalized (hashmap2 is main)
ShrinkToFitStartsWitness ==
    /\ Running /\ ~rehashing /\ ~is1main
    /\ hm_len(get_main(Self)) = MaxKey
    /\ \E s \in shrink_to_fit(Self) :
          s.is1main /\ s.rehashing /\ hm_len(s.hashmap2) = MaxKey

\* C13: for a container whose only entry is k, bound to v, shrink_to_fit
\* followed by insert(k, v2) returns v, and on return the container is not
\* rehashing, the secondary is released and get(k) is v2.
InsertFinalizesOneEntryMigration ==
    (Running /\ len(Self) = 1) =>
        \A k \in Keys, v2 \in Vals : get(Self, k) # None =>
            \A s \in shrink_to_fit(Self) : \A r \in insert(s, k, v2) :
                /\ r.s.panic = "none"
                /\ r.ret = get(Self, k)
                /\ ~r.s.rehashing
                /\ get_secondary(r.s) = HashMap_new
                /\ get(r.s, k) = Some(v2)

\* a quiescent container with one entry; shrink_to_fit parks it in the
\* secondary and insert of the same key with another value brings it back
InsertFinalizesWitness ==
    /\ Running /\ ~rehashing /\ len(Self) = 1
    /\ \E k \in Keys, v2 \in Vals :
          /\ get(Self, k) # None /\ get(Self, k) # Some(v2)
          /\ \E s \in shrink_to_fit(Self) :
                /\ hm_contains_key(get_secondary(s), k)
                /\ \E r \in insert(s, k, v2) : ~r.s.rehashing /\ r.ret # None

\* how many of the elements of seq satisfy want
Count(seq, want(_)) == Cardinality({i \in DOMAIN seq : want(seq[i])})

\* C14: in every reachable state, rehashing or not, iter(), keys() and
\* values() each yield every entry of the container exactly once, and the len
\* they report when created is len(); so does iter_mut() for the container as
\* its one rehash step leaves it.
IterationCompleteness ==
    Running =>
        /\ \A it \in iter(Self) :
              /\ it.len = len(Self)
              /\ \A k \in Keys :
                    LET IsK(e) == e[1] = k
                        IsKV(e) == e[1] = k /\ Some(e[2]) = get(Self, k)
                    IN  /\ Count(it.items, IsK) = IF get(Self, k) # None THEN 1 ELSE 0
                        /\ Count(it.items, IsKV) = Count(it.items, IsK)
        /\ \A it \in keys(Self) :
              /\ it.len = len(Self)
              /\ \A k \in Keys :
                    LET IsK(e) == e = k
                    IN  Count(it.items, IsK) = IF get(Self, k) # None THEN 1 ELSE 0
        /\ \A it \in values(Self) :
              /\ it.len = len(Self)
              /\ \A v \in Vals :
                    LET IsV(e) == e = v
                    IN  Count(it.items, IsV)
                          = Cardinality({k \in Keys : get(Self, k) = Some(v)})
        /\ \A it \in iter_mut_yield(Self) :
              /\ it.s.panic = "none"
              /\ it.len = len(it.s)
              /\ len(it.s) = len(Self)
              /\ \A k \in Keys :
                    LET IsK(e) == e[1] = k
                        IsKV(e) == e[1] = k /\ Some(e[2]) = get(Self, k)
                    IN  /\ Count(it.items, IsK) = IF get(Self, k) # None THEN 1 ELSE 0
                        /\ Count(it.items, IsKV) = Count(it.items, IsK)

\* mid-migration, an entry in each table: the iterator yields the one of
\* hashmap1, then the one of hashmap2
IterationWitness ==
    /\ Running /\ rehashing
    /\ \E it \in iter(Self) :
          /\ it.len = 2 /\ Len(it.items) = 2
          /\ hm_contains_key(hashmap1, it.items[1][1])
          /\ hm_contains_key(hashmap2, it.items[2][1])

\* ---- a second container, to compare with
\* the containers got from the set S by insert(k, c[k]) for the keys k..MaxKey of c
RECURSIVE InsertAll(_, _, _)
InsertAll(S, c, k) ==
    IF k > MaxKey THEN S
    ELSE IF k \in DOMAIN c
    THEN InsertAll(UNION {{r.s : r \in insert(s, k, c[k])} : s \in S}, c, k + 1)
    ELSE InsertAll(S, c, k + 1)

\* the containers got from the set S by at most n calls of rehash
RECURSIVE RehashUpTo(_, _)
RehashUpTo(S, n) ==
    IF n = 0 THEN S ELSE S \cup RehashUpTo(UNION {rehash(s) : s \in S}, n - 1)

\* what eq reads of a container: the tables' entries and the two flags
Shape(s) ==
    [hashmap1 |-> s.hashmap1.map, hashmap2 |-> s.hashmap2.map,
     is1main |-> s.is1main, rehashing |-> s.rehashing]

\* one container of S for each shape a container of S has
OneOfEachShape(S) ==
    {CHOOSE o \in S : Shape(o) = sh : sh \in {Shape(o) : o \in S}}

\* every map of some keys to values
AllContents == UNION {[D -> Vals] : D \in SUBSET Keys}

\* shrink_to_fit on each container of S, then up to len()+1 rehash calls:
\* a migration at every progress, the finished one included
Migrated(S) ==
    OneOfEachShape(RehashUpTo(UNION {shrink_to_fit(s) : s \in S}, MaxKey + 1))

\* containers a program builds from new(): the entries inserted (hashmap1
\* main); then a first migration (hashmap2 main); then a second one
\* (hashmap1 main again)
Others ==
    LET built  == OneOfEachShape(UNION {InsertAll({new}, c, 1) : c \in AllContents})
        first  == Migrated(built)
        second == Migrated(first)
    IN  OneOfEachShape(built \cup first \cup second)

\* the specification of the comparisons: the container is any of Others, and
\* goes on migrating, gaining and losing entries, while it is compared
InitEq ==
    /\ \E o \in Others :
          /\ hashmap1 = o.hashmap1
          /\ hashmap2 = o.hashmap2
          /\ is1main = o.is1main
          /\ rehashing = o.rehashing
          /\ panic = o.panic
          /\ control = Contents(o)
    /\ run = NoRun

NextEq == Rehash \/ Insert \/ Remove

SpecEq == InitEq /\ [][NextEq]_vars

\* C15: two containers compare equal exactly when they hold the same keys with
\* the same values, whatever the migration state and progress of either one
\* and whichever of their tables is main.
EqualityIsOfContents ==
    Running =>
        LET c == Contents(Self)
        IN  \A o \in Others :
                /\ eq(Self, o) = [ret |-> c = Contents(o), panic |-> "none"]
                /\ eq(o, Self) = [ret |-> c = Contents(o), panic |-> "none"]

\* both mid-migration, with the same entries, opposite main tables and a
\* different progress, and they compare equal
EqualityWitness ==
    /\ Running /\ rehashing
    /\ hm_len(get_main(Self)) = 1 /\ hm_len(get_secondary(Self)) = 1
    /\ \E o \in Others :
          /\ o.rehashing /\ o.is1main # is1main
          /\ hm_len(get_secondary(o)) = 2
          /\ eq(Self, o).ret

\* no key is in both tables of s
exclusive(s) == DOMAIN s.hashmap1.map \cap DOMAIN s.hashmap2.map = {}

\* C16: a value written through the reference of get_mut(k), for a present
\* key, or of entry(k).or_insert(d), for a present or an absent key, is what
\* get(k) returns afterwards; the reference read the key's value, or d for an
\* absent key of entry, which is then in the main table with len() one more;
\* get_mut of an absent key gives no reference; no other key's binding
\* changes and no key is in both tables.
WritesThroughHandles ==
    Running =>
        LET c == Contents(Self)
            n == len(Self)
            was(k) == IF k \in DOMAIN c THEN Some(c[k]) ELSE None
            with(k, w) == [x \in DOMAIN c \cup {k} |-> IF x = k THEN w ELSE c[x]]
        IN  /\ \A k \in Keys, w \in Vals : \A r \in get_mut(Self, k, w) :
                  /\ r.s.panic = "none"
                  /\ r.ret = was(k)
                  /\ Contents(r.s) = IF k \in DOMAIN c THEN with(k, w) ELSE c
                  /\ len(r.s) = n
                  /\ exclusive(r.s)
            /\ \A k \in Keys, d \in Vals, w \in Vals : \A r \in entry(Self, k, d, w) :
                  /\ r.s.panic = "none"
                  /\ Contents(r.s) = with(k, w)
                  /\ IF k \in DOMAIN c
                     THEN r.ret = was(k) /\ len(r.s) = n
                     ELSE /\ r.ret = Some(d)
                          /\ hm_contains_key(get_main(r.s), k)
                          /\ len(r.s) = n + 1
                  /\ exclusive(r.s)

\* mid-migration, get_mut and entry write a new value to a key that was in
\* the secondary table, and entry binds an absent key and writes over its
\* default
WritesThroughHandlesWitness ==
    /\ Running /\ rehashing
    /\ \E k \in DOMAIN get_secondary(Self).map, w \in Vals :
          /\ get(Self, k) # Some(w)
          /\ \E r \in get_mut(Self, k, w) : get(r.s, k) = Some(w)
          /\ \E d \in Vals : \E r \in entry(Self, k, d, w) :
                r.ret = get(Self, k) /\ get(r.s, k) = Some(w)
    /\ \E k \in Keys, d \in Vals, w \in Vals : \E r \in entry(Self, k, d, w) :
          /\ get(Self, k) = None /\ r.ret = Some(d) /\ w # d
          /\ r.s.rehashing /\ get(r.s, k) = Some(w)

\* C17: with_capacity(n) gives a container of capacity() at least n, and after
\* reserve(n), which first takes one step of a migration under way,
\* capacity() is at least len() + n, where capacity() is the main table's
\* capacity plus the number of entries still in the secondary.
CapacityAfterReserve ==
    Running =>
        /\ \A n \in 0..MaxAdditional : \A s \in with_capacity(n) :
              capacity(s) >= n /\ len(s) = 0
        /\ \A n \in 0..MaxAdditional : \A s \in reserve(Self, n) :
              /\ s.panic = "none"
              /\ capacity(s) >= len(s) + n
              /\ get_main(s).cap >= hm_len(get_main(s)) + n

\* mid-migration, after the step of reserve entries are left in the secondary,
\* and the main table's capacity alone is less than len() + n
CapacityWitness ==
    /\ Running /\ rehashing
    /\ \E n \in 1..MaxAdditional : \E s \in reserve(Self, n) :
          /\ s.rehashing /\ hm_len(get_secondary(s)) >= 1
          /\ get_main(s).cap < len(s) + n
          /\ capacity(s) >= len(s) + n

\* C18: one call of rehash does one unit of work. Not migrating, it changes
\* nothing. Migrating with an empty secondary, it only retires the migration:
\* rehashing becomes false, the secondary is replaced by a new table and the
\* main table is untouched. Otherwise one entry leaves the secondary and the
\* same key with the same value appears in the main table: the secondary has
\* one entry less, the main table one more, and rehashing stays true.
RehashIsOneUnitOfWork ==
    Running =>
        \A s \in rehash(Self) :
            LET sec == get_secondary(Self).map
                main == get_main(Self).map
                sec2 == get_secondary(s).map
                main2 == get_main(s).map
            IN  /\ s.panic = "none"
                /\ s.is1main = is1main
                /\ IF ~rehashing THEN s = Self
                   ELSE IF DOMAIN sec = {}
                   THEN /\ ~s.rehashing
                        /\ get_secondary(s) = HashMap_new
                        /\ get_main(s) = get_main(Self)
                   ELSE /\ s.rehashing
                        /\ Cardinality(DOMAIN sec2) = Cardinality(DOMAIN sec) - 1
                        /\ Cardinality(DOMAIN main2) = Cardinality(DOMAIN main) + 1
                        /\ \E k \in DOMAIN sec :
                              /\ DOMAIN sec2 = DOMAIN sec \ {k}
                              /\ \A j \in DOMAIN sec2 : sec2[j] = sec[j]
                              /\ DOMAIN main2 = DOMAIN main \cup {k}
                              /\ main2[k] = sec[k]
                              /\ \A j \in DOMAIN main : main2[j] = main[j]

\* a call with two entries in the secondary moves one and leaves the other
OneUnitOfWorkWitness ==
    /\ Running /\ rehashing
    /\ hm_len(get_secondary(Self)) = 2
    /\ \E s \in rehash(Self) :
          /\ s.rehashing
          /\ hm_len(get_secondary(s)) = 1
          /\ hm_len(get_main(s)) = hm_len(get_main(Self)) + 1

\* the code never looks into a value (V is a type parameter without bounds),
\* so where only the tables' keys and the flags are asked about, one value to
\* insert or write stands for all
AnyVal == CHOOSE v \in Vals : TRUE

\* the container s, got from Self by one call, has no failed assertion and is
\* further in the migration: no longer rehashing, or with fewer entries in
\* the secondary; and no longer rehashing if the secondary was empty
progress(s) ==
    /\ s.panic = "none"
    /\ ~s.rehashing \/ hm_len(get_secondary(s)) < hm_len(get_secondary(Self))
    /\ hm_len(get_secondary(Self)) = 0 => ~s.rehashing

\* C19: whenever insert, remove, get_mut, entry, iter_mut, reserve or rehash
\* is called while rehashing, then on return either rehashing is false or the
\* secondary has strictly fewer entries than on entry; called with an empty
\* secondary, the call retires the migration.
EveryMutationMakesProgress ==
    Running /\ rehashing =>
        /\ \A k \in Keys : \A r \in insert(Self, k, AnyVal) : progress(r.s)
        /\ \A k \in Keys : \A r \in remove(Self, k) : progress(r.s)
        /\ \A k \in Keys : \A r \in get_mut(Self, k, AnyVal) : progress(r.s)
        /\ \A k \in Keys : \A r \in entry(Self, k, AnyVal, AnyVal) : progress(r.s)
        /\ \A j \in Keys : \A r \in iter_mut(Self, j, AnyVal) : progress(r.s)
        /\ \A n \in 0..MaxAdditional : \A s \in reserve(Self, n) : progress(s)
        /\ \A s \in rehash(Self) : progress(s)

\* with two entries in the secondary, a reserve leaves one of them there, and
\* a remove, which takes one out itself, leaves none but is still rehashing
ProgressWitness ==
    /\ Running /\ rehashing
    /\ hm_len(get_secondary(Self)) = 2
    /\ \E n \in 0..MaxAdditional : \E s \in reserve(Self, n) :
          s.rehashing /\ hm_len(get_secondary(s)) = 1
    /\ \E k \in Keys : \E r \in remove(Self, k) :
          r.s.rehashing /\ hm_len(get_secondary(r.s)) = 0

\* the container s, got from Self by one call, has the same table as
\* secondary, and no key in it that was not there before the call
drains(s) ==
    /\ s.is1main = is1main
    /\ DOMAIN get_secondary(s).map \subseteq DOMAIN get_secondary(Self).map

\* C20: no operation adds a key to the secondary, so across a call that starts
\* and ends rehashing the keys of the secondary afterwards are among those
\* before; the one exception is shrink_to_fit called while not rehashing,
\* which makes the old main table, entries and all, the secondary.
SecondaryOnlyDrains ==
    Running =>
        /\ \A k \in Keys : \A r \in insert(Self, k, AnyVal) : drains(r.s)
        /\ \A k \in Keys : \A r \in remove(Self, k) : drains(r.s)
        /\ \A k \in Keys : \A r \in get_mut(Self, k, AnyVal) : drains(r.s)
        /\ \A k \in Keys : \A r \in entry(Self, k, AnyVal, AnyVal) : drains(r.s)
        /\ \A j \in Keys : \A r \in iter_mut(Self, j, AnyVal) : drains(r.s)
        /\ \A n \in 0..MaxAdditional : \A s \in reserve(Self, n) : drains(s)
        /\ \A s \in rehash(Self) : drains(s)
        /\ drains(clear(Self))
        /\ drains(is_rehashing(Self).s)
        /\ \A s \in shrink_to_fit(Self) :
              IF rehashing THEN drains(s)
              ELSE s.rehashing /\ get_secondary(s) = get_main(Self)

\* mid-migration, insert and entry bind a key that was absent, and the call
\* ends still rehashing with that key in the main table alone
SecondaryDrainsWitness ==
    /\ Running /\ rehashing
    /\ hm_len(get_secondary(Self)) >= 1
    /\ \E k \in Keys, v \in Vals :
          /\ get(Self, k) = None
          /\ \E r \in insert(Self, k, v) :
                /\ r.s.rehashing
                /\ hm_contains_key(get_main(r.s), k)
                /\ ~hm_contains_key(get_secondary(r.s), k)
          /\ \E r \in entry(Self, k, v, v) :
                /\ r.s.rehashing
                /\ hm_contains_key(get_main(r.s), k)
                /\ ~hm_contains_key(get_secondary(r.s), k)

\* the iterator it, as created, reports after each number j of items yielded
\* the number of items it will still yield
exact(it) ==
    LET n == Len(it.items)
    IN  \A j \in 0..n :
            /\ Len(Iter_nth(it, j).items) = n - j
            /\ Iter_len(Iter_nth(it, j)) = n - j

\* C21: for the iterators of iter(), iter_mut(), keys() and values(), after j
\* items have been yielded, 0 <= j <= len(), the len() of the iterator is the
\* number of items it will still yield, the container's len() - j.
RemainingLengthIsExact ==
    Running =>
        /\ \A it \in iter(Self) : Len(it.items) = len(Self) /\ exact(it)
        /\ \A it \in keys(Self) : Len(it.items) = len(Self) /\ exact(it)
        /\ \A it \in values(Self) : Len(it.items) = len(Self) /\ exact(it)
        /\ \A it \in iter_mut_yield(Self) : Len(it.items) = len(Self) /\ exact(it)

====
